---------------------------- MODULE Spec2Model ----------------------------
(***************************************************************************)
(* A model of the Battleship mini-game of src/game.js: the model classes   *)
(* (ShipModel, CellModel, BoardModel, GameModel), the view components      *)
(* (BoardCellComponent, GameBoardComponent, GameComponent) and the         *)
(* observer dispatch that connects them.                                   *)
(*                                                                         *)
(* A JS cell key 'RxC' is the pair <<R, C>>; a JS Set of callbacks is the  *)
(* sequence of its members in insertion order (the order forEach visits    *)
(* them).                                                                  *)
(*                                                                         *)
(* The grids are held sparsely.  A BoardModel's _cells is its grid of keys *)
(* (CellKeys), the set `used` of the keys whose cell has _used = true and  *)
(* the function `shipAt` from the keys whose cell has a _ship to the index *)
(* of that ship in the board's ships; every other cell is as constructed.  *)
(* A GameBoardComponent's _cells is its length and the function `cells`    *)
(* from the indices of the cells that setState has been called on to what  *)
(* they hold; every other cell is as constructed and, once the view has    *)
(* run, as run() leaves a constructed cell (CellAt).                       *)
(***************************************************************************)
EXTENDS Integers, Sequences, FiniteSets, Bags, TLC

VARIABLES
  boards,      \* GameModel._boards: boardNumber -> BoardModel
  observers,   \* GameModel._observers, in insertion order
  view,        \* the GameComponent: [componentState, boards (board views)]
  lastCall,    \* what the last operation did, as its caller can observe it
  published    \* bag of the shotFired payloads handed to _publishChange so far

vars == <<boards, observers, view, lastCall, published>>

---------------------------------------------------------------------------
\* Program constants

\* new BoardModel({ size: 10 })
Size == 10
\* boards: [ board1, board2 ]
BoardCount == 2
\* GameComponent's defaults: boardCount = 2, boardSize = 10
ViewBoardCount == 2
ViewBoardSize == 10

\* Bound of the model: how many cells of the boards a run shoots at most
\* (shots that use no further cell are not limited).
MaxUsed == 4

\* JS values that are not numbers or records
Undefined == "undefined"
NoError == "none"
\* this._ship = null: no index into the board's ships
NoShip == 0
\* the key of no cell: what _getCellAt gives for a key the board does not hold
UndefinedCell == <<>>

\* The errors the code throws
ErrBoardNumberInvalid == "Board number invalid"
ErrTypeError == "TypeError"
ErrAlreadyUsed == "Cannot re-use an already-used cell!"
ErrInvalidState == "Invalid state for BoardCellComponent"
ErrInvalidCellAddress == "Invalid cell address"
ErrBoardViewNotFound == "Board view not found"

\* BoardCellComponent.states
States == {"unknown", "hit", "miss"}

---------------------------------------------------------------------------
\* Inputs of the operations

\* (row, column) passed to shootAt: the ship's cells, the water next to it,
\* a cell of the model's extra column and of its extra row, the first cell
\* of row 1, and a cell the model does not hold.
ShotTargets ==
  { <<0, 2>>, <<0, 3>>, <<0, 4>>, <<0, 5>>, <<0, Size>>, <<1, 0>>,
    <<Size, 0>>, <<Size + 1, 0>> }

\* (boardNumber, row, column) passed to GameModel.shootAt: every target on
\* board 0, some on board 1, and a board number on each side out of range.
Shots ==
  ({0} \X ShotTargets)
    \cup {<<1, <<0, 2>>>>, <<1, <<1, 0>>>>}
    \cup {<<-1, <<0, 2>>>>, <<BoardCount, <<0, 3>>>>}

\* The callbacks registered with addObserver: the view's modelObserver and
\* two other callbacks, each of which may throw when called.
ViewObserver == "view"
OtherObservers == {"obsA", "obsB"}
ObserverIds == {ViewObserver} \cup OtherObservers

\* The Error object an observer other than the view throws.
ObserverError(o) ==
  IF o = "obsA" THEN "Error thrown by obsA" ELSE "Error thrown by obsB"

---------------------------------------------------------------------------
\* ShipModel

\* constructor
NewShip == [size |-> 0, cells |-> {}, shotTimes |-> 0]

AddToCell(ship, cell) ==
  IF cell \in ship.cells
    THEN ship
    ELSE [ship EXCEPT !.cells = @ \cup {cell}, !.size = @ + 1]

ShipShoot(ship) == [ship EXCEPT !.shotTimes = @ + 1]

\* IsSunk with > for >=
IsSunkStrict(ship) == ship.shotTimes > ship.size

IsSunk(ship) == ship.shotTimes >= ship.size

---------------------------------------------------------------------------
\* CellModel

\* The keys of the board's _cells: the constructor's two loops both run to
\* size inclusive.
CellKeys(board) == (0..board.rowNumber) \X (0..board.columnNumber)

\* The CellModel at `key`: _used and _ship
Cell(board, key) ==
  [used |-> key \in board.used,
   ship |-> IF key \in DOMAIN board.shipAt THEN board.shipAt[key] ELSE NoShip]

IsUsed(board, key) == Cell(board, key).used

\* cell.setShip(ship) on the cell at `key` of `board`, `s` the ship's index
SetShip(board, key, s) ==
  [board EXCEPT !.shipAt = [k \in DOMAIN @ \cup {key} |->
                              IF k = key THEN s ELSE @[k]],
                !.ships[s] = AddToCell(@, key)]

\* CellShoot without `this._used = true`
CellShootNoMark(board, key) ==
  LET cell == Cell(board, key) IN
  IF ~cell.used
    THEN IF cell.ship # NoShip
           THEN [board |-> [board EXCEPT !.ships[cell.ship] = ShipShoot(@)],
                 ret |-> cell.ship, error |-> NoError]
           ELSE [board |-> board, ret |-> NoShip, error |-> NoError]
    ELSE [board |-> board, ret |-> NoShip, error |-> ErrAlreadyUsed]

\* CellShoot without `this._ship.shoot()`
CellShootNoHit(board, key) ==
  LET cell == Cell(board, key) IN
  IF ~cell.used
    THEN [board |-> [board EXCEPT !.used = @ \cup {key}],
          ret |-> cell.ship, error |-> NoError]
    ELSE [board |-> board, ret |-> NoShip, error |-> ErrAlreadyUsed]

\* cell.shoot() on the cell at `key` of `board`: the board after it, what it
\* returns and what it throws
CellShoot(board, key) ==
  LET cell == Cell(board, key) IN
  IF ~cell.used
    THEN IF cell.ship # NoShip
           THEN [board |-> [board EXCEPT !.used = @ \cup {key},
                                         !.ships[cell.ship] = ShipShoot(@)],
                 ret |-> cell.ship, error |-> NoError]
           ELSE [board |-> [board EXCEPT !.used = @ \cup {key}],
                 ret |-> NoShip, error |-> NoError]
    ELSE [board |-> board, ret |-> NoShip, error |-> ErrAlreadyUsed]

---------------------------------------------------------------------------
\* BoardModel

\* ShipsToAdd with the ship one column to the right
ShipsToAddShifted == << << <<0, 3>>, <<0, 4>>, <<0, 5>> >> >>

\* The hard-coded ships, each the list of the cells to place it in.
ShipsToAdd == << << <<0, 2>>, <<0, 3>>, <<0, 4>> >> >>

RECURSIVE PlaceShip(_, _, _)
\* cellsToPlaceIn.forEach: cell.setShip(ship) for the locations from i on
PlaceShip(board, s, i) ==
  IF i > Len(ShipsToAdd[s])
    THEN board
    ELSE PlaceShip(SetShip(board, ShipsToAdd[s][i], s), s, i + 1)

RECURSIVE PlaceShips(_, _)
\* shipsToAdd.forEach: a new ShipModel for each list from s on
PlaceShips(board, s) ==
  IF s > Len(ShipsToAdd)
    THEN board
    ELSE PlaceShips(
           PlaceShip([board EXCEPT !.ships = Append(@, NewShip)], s, 1),
           s + 1)

\* new BoardModel({ size }): every cell unused and without a ship, then the
\* ships placed
NewBoardModel(size) ==
  PlaceShips([rowNumber |-> size, columnNumber |-> size,
              used |-> {}, shipAt |-> <<>>, ships |-> <<>>], 1)

\* _getCellAt: the key of the cell, or undefined
GetCellAt(board, row, column) ==
  IF <<row, column>> \in CellKeys(board)
    THEN <<row, column>>
    ELSE UndefinedCell

\* BoardShootAt without the guard clause on cell.isUsed()
BoardShootAtNoGuard(board, row, column) ==
  LET cell == GetCellAt(board, row, column) IN
  IF cell = UndefinedCell
    THEN [board |-> board, result |-> Undefined, error |-> ErrTypeError]
    ELSE LET shot == CellShoot(board, cell) IN
         [board |-> shot.board,
          result |-> IF shot.error # NoError THEN Undefined
                     ELSE IF shot.ret # NoShip THEN "hit" ELSE "miss",
          error |-> shot.error]

\* BoardShootAt with the two results the wrong way round
BoardShootAtSwapped(board, row, column) ==
  LET cell == GetCellAt(board, row, column) IN
  IF cell = UndefinedCell
    THEN [board |-> board, result |-> Undefined, error |-> ErrTypeError]
    ELSE IF IsUsed(board, cell)
      THEN [board |-> board, result |-> Undefined, error |-> NoError]
      ELSE LET shot == CellShoot(board, cell) IN
           [board |-> shot.board,
            result |-> IF shot.error # NoError THEN Undefined
                       ELSE IF shot.ret # NoShip THEN "miss" ELSE "hit",
            error |-> shot.error]

\* board.shootAt(row, column): the board after it, what it returns and what
\* it throws
BoardShootAt(board, row, column) ==
  LET cell == GetCellAt(board, row, column) IN
  IF cell = UndefinedCell
    THEN \* cell.isUsed() on undefined
         [board |-> board, result |-> Undefined, error |-> ErrTypeError]
    ELSE IF IsUsed(board, cell)
      THEN [board |-> board, result |-> Undefined, error |-> NoError]
      ELSE LET shot == CellShoot(board, cell) IN
           [board |-> shot.board,
            result |-> IF shot.error # NoError THEN Undefined
                       ELSE IF shot.ret # NoShip THEN "hit" ELSE "miss",
            error |-> shot.error]

---------------------------------------------------------------------------
\* Component and BoardCellComponent
\* A cell view is [state, componentState]: componentState is <<>> before
\* run() and <<element>> after it, element the <td>'s textContent and
\* className.

\* constructor
NewBoardCellComponent == [state |-> "unknown", componentState |-> <<>>]

\* document.createElement('td')
NewElement == [textContent |-> "", className |-> ""]

\* the switch of _refresh
Content(state) ==
  CASE state = "unknown" -> ""
    [] state = "hit" -> "X"
    [] state = "miss" -> "."
    [] OTHER -> Undefined

ClassName(state) == "cell_" \o state

\* _refresh: getElement() throws before run()
Refresh(cell) ==
  IF cell.componentState = <<>>
    THEN [cell |-> cell, error |-> ErrTypeError]
    ELSE [cell |-> [cell EXCEPT !.componentState =
                      << [textContent |-> Content(cell.state),
                          className |-> ClassName(cell.state)] >>],
          error |-> NoError]

\* SetState assigning and refreshing before it validates
SetStateAssignFirst(cell, state) ==
  LET done == Refresh([cell EXCEPT !.state = state]) IN
  IF state \notin States
    THEN [cell |-> done.cell, error |-> ErrInvalidState]
    ELSE done

\* setState(state)
SetState(cell, state) ==
  IF state \notin States
    THEN [cell |-> cell, error |-> ErrInvalidState]
    ELSE Refresh([cell EXCEPT !.state = state])

\* getElement(): this._componentState.element, a TypeError while
\* _componentState is undefined; ret is <<element>>
GetElement(componentState) ==
  IF componentState = <<>>
    THEN [ret |-> <<>>, error |-> ErrTypeError]
    ELSE [ret |-> componentState, error |-> NoError]

\* run() of a cell calling _initialize ahead of _createElement
CellRunInitFirst(cell) ==
  [Refresh(cell).cell EXCEPT !.componentState = <<NewElement>>]

\* run() of a cell: _createElement, then _initialize
CellRun(cell) ==
  Refresh([cell EXCEPT !.componentState = <<NewElement>>]).cell

---------------------------------------------------------------------------
\* GameBoardComponent and GameComponent

\* A board view is [length, cells, columnNumber, rowNumber, componentState]:
\* cells holds the cell views that differ from a cell nothing has touched,
\* componentState is <<>> before run() and <<element>> after it, element
\* the <table>'s className and its rows, each the indices of the cell
\* views whose elements were appended to the <tr>, in order.

\* new GameBoardComponent({ size }): size * size cells, pushed row by row
NewGameBoardComponent(size) ==
  [length |-> size * size, cells |-> <<>>,
   columnNumber |-> size, rowNumber |-> size, componentState |-> <<>>]

\* The location the constructor gives the cell view it pushes as `index`
CellLocation(boardNumber, board, index) ==
  [boardNumber |-> boardNumber,
   row |-> index \div board.columnNumber,
   column |-> index % board.columnNumber]

\* _createElement of a board view: the table and its rows
BoardCreateElement(board) ==
  [className |-> "gameboard",
   rows |-> [rowIndex \in 1..board.rowNumber |->
               [columnIndex \in 1..board.columnNumber |->
                  (rowIndex - 1) * board.columnNumber + (columnIndex - 1)]]]

\* run() of a board view: _createElement runs each cell
BoardRun(board) ==
  [board EXCEPT !.cells = [i \in DOMAIN @ |-> CellRun(@[i])],
                !.componentState = <<BoardCreateElement(board)>>]

\* this._cells[index] of board view b
CellAt(v, b, index) ==
  IF index \in DOMAIN v.boards[b].cells
    THEN v.boards[b].cells[index]
    ELSE IF v.boards[b].componentState # <<>>
           THEN CellRun(NewBoardCellComponent)
           ELSE NewBoardCellComponent

\* getCell with row and column the wrong way round in the index
GetCellTransposed(board, row, column) ==
  LET index == column * board.columnNumber + row IN
  IF index >= 0 /\ index < board.length
    THEN [index |-> index, error |-> NoError]
    ELSE [index |-> -1, error |-> ErrInvalidCellAddress]

\* getCell(row, column): the index of the cell, or the error
GetCell(board, row, column) ==
  LET index == row * board.columnNumber + column IN
  IF index >= 0 /\ index < board.length
    THEN [index |-> index, error |-> NoError]
    ELSE [index |-> -1, error |-> ErrInvalidCellAddress]

\* new GameComponent({ boardCount, boardSize }), not yet run
NewGameComponent(boardCount, boardSize) ==
  [componentState |-> <<>>,
   boards |-> [b \in 0..(boardCount - 1) |-> NewGameBoardComponent(boardSize)]]

\* _createElement of the top-level view: the div and the board views
\* whose elements were appended to its boardContainer, in order
GameCreateElement(v) ==
  [className |-> "gameComponent",
   boardContainer |-> [n \in 1..Cardinality(DOMAIN v.boards) |-> n - 1]]

\* run() of the top-level view: _createElement runs every board view
GameComponentRun(v) ==
  [componentState |-> <<GameCreateElement(v)>>,
   boards |-> [b \in DOMAIN v.boards |-> BoardRun(v.boards[b])]]

\* The view with cell `index` of board view b holding `cell`; a cell that
\* is as CellAt gives it for an index not held is not held
WithCell(v, b, index, cell) ==
  LET old == v.boards[b].cells
      asNew == IF v.boards[b].componentState # <<>>
                 THEN CellRun(NewBoardCellComponent)
                 ELSE NewBoardCellComponent
      held == IF cell = asNew THEN DOMAIN old \ {index}
              ELSE DOMAIN old \cup {index} IN
  [v EXCEPT !.boards[b].cells =
     [i \in held |-> IF i = index THEN cell ELSE old[i]]]

\* modelObserver(type, data): the view after it, what it throws, and the
\* cell views whose setState it called
ModelObserver(v, type, data) ==
  IF type = "shotFired"
    THEN IF data.boardNumber \notin DOMAIN v.boards
           THEN [view |-> v, error |-> ErrBoardViewNotFound, set |-> {}]
           ELSE LET got == GetCell(v.boards[data.boardNumber],
                                   data.row, data.column) IN
                IF got.error # NoError
                  THEN [view |-> v, error |-> got.error, set |-> {}]
                  ELSE LET done == SetState(
                                     CellAt(v, data.boardNumber, got.index),
                                     data.result) IN
                       [view |-> WithCell(v, data.boardNumber, got.index,
                                          done.cell),
                        error |-> done.error,
                        set |-> {<<data.boardNumber, got.index>>}]
    ELSE [view |-> v, error |-> NoError, set |-> {}]

---------------------------------------------------------------------------
\* GameModel

\* LookupBoard falling back to the first board (this._boards[n] || this._boards[0])
LookupBoardDefault(bs, boardNumber) ==
  IF boardNumber \in DOMAIN bs THEN <<boardNumber>> ELSE <<0>>

\* LookupBoard giving the first board for every board number that is one
LookupBoardFirst(bs, boardNumber) ==
  IF boardNumber \in DOMAIN bs THEN <<0>> ELSE <<>>

\* this._boards[boardNumber]: <<boardNumber>> when it is a board, <<>>
\* (undefined) otherwise
LookupBoard(bs, boardNumber) ==
  IF boardNumber \in DOMAIN bs THEN <<boardNumber>> ELSE <<>>

\* One observer called with (type, data): the view's modelObserver, or a
\* callback that throws iff it is among `failing`.
CallObserver(o, v, type, data, failing) ==
  IF o = ViewObserver
    THEN ModelObserver(v, type, data)
    ELSE [view |-> v,
          error |-> IF o \in failing THEN ObserverError(o) ELSE NoError,
          set |-> {}]

\* DispatchStep without the try: the first error ends the dispatch
DispatchStepNoCatch(acc, o, type, data, failing) ==
  IF acc.observerError # NoError
    THEN acc
    ELSE LET r == CallObserver(o, acc.view, type, data, failing) IN
         [view |-> r.view,
          calls |-> Append(acc.calls,
                      [observer |-> o, type |-> type, data |-> data,
                       error |-> r.error, set |-> r.set]),
          observerError |-> r.error]

\* DispatchStep keeping the first error instead of the last
DispatchStepKeepFirst(acc, o, type, data, failing) ==
  LET r == CallObserver(o, acc.view, type, data, failing) IN
  [view |-> r.view,
   calls |-> Append(acc.calls,
               [observer |-> o, type |-> type, data |-> data,
                error |-> r.error, set |-> r.set]),
   observerError |-> IF acc.observerError # NoError THEN acc.observerError
                     ELSE r.error]

\* The body of the forEach of _publishChange for observer o: the try and
\* its catch.  acc holds the view, the calls made so far and observerError.
DispatchStep(acc, o, type, data, failing) ==
  LET r == CallObserver(o, acc.view, type, data, failing) IN
  [view |-> r.view,
   calls |-> Append(acc.calls,
               [observer |-> o, type |-> type, data |-> data,
                error |-> r.error, set |-> r.set]),
   observerError |-> IF r.error # NoError THEN r.error ELSE acc.observerError]

RECURSIVE Dispatch(_, _, _, _, _, _)
\* this._observers.forEach from the i-th observer on
Dispatch(obs, i, acc, type, data, failing) ==
  IF i > Len(obs)
    THEN acc
    ELSE Dispatch(obs, i + 1, DispatchStep(acc, obs[i], type, data, failing),
                  type, data, failing)

\* _publishChange(type, data): the view after it, the calls made, and what
\* it throws at the end
PublishChange(obs, v, type, data, failing) ==
  LET acc == Dispatch(obs, 1,
                      [view |-> v, calls |-> <<>>, observerError |-> NoError],
                      type, data, failing) IN
  [view |-> acc.view, calls |-> acc.calls, thrown |-> acc.observerError]

RECURSIVE UsedCount(_, _)
\* The number of used cells of the boards from b on
UsedCount(bs, b) ==
  IF b \notin DOMAIN bs THEN 0
  ELSE Cardinality(bs[b].used) + UsedCount(bs, b + 1)

\* What an operation leaves for its caller to see
Call(op, args, boardResult, calls, thrown) ==
  [op |-> op, args |-> args, boardResult |-> boardResult,
   calls |-> calls, thrown |-> thrown]

\* What an operation that returns a value leaves for its caller to see
Returned(op, args, ret, thrown) ==
  [op |-> op, args |-> args, boardResult |-> Undefined,
   calls |-> <<>>, thrown |-> thrown, ret |-> ret]

\* The registered callbacks other than the view
Registered == {observers[i] : i \in 1..Len(observers)} \ {ViewObserver}

\* shootAt putting the board back as it was when an observer threw
GameShootAtRollback(boardNumber, row, column, failing) ==
  IF LookupBoard(boards, boardNumber) = <<>>
    THEN /\ lastCall' = Call("shootAt", <<boardNumber, row, column>>,
                             Undefined, <<>>, ErrBoardNumberInvalid)
         /\ UNCHANGED <<boards, observers, view, published>>
    ELSE LET board == LookupBoard(boards, boardNumber)[1]
             shot == BoardShootAt(boards[board], row, column)
             data == [boardNumber |-> boardNumber, row |-> row,
                      column |-> column, result |-> shot.result]
             pub == PublishChange(observers, view, "shotFired", data,
                                  failing) IN
         IF shot.error # NoError \/ shot.result = Undefined
           THEN /\ lastCall' = Call("shootAt", <<boardNumber, row, column>>,
                                    Undefined, <<>>, shot.error)
                /\ UNCHANGED <<boards, observers, view, published>>
           ELSE /\ boards' = IF pub.thrown # NoError THEN boards
                              ELSE [boards EXCEPT ![board] = shot.board]
                /\ UsedCount(boards', 0) <= MaxUsed
                /\ view' = pub.view
                /\ published' = published (+) SetToBag({data})
                /\ lastCall' = Call("shootAt", <<boardNumber, row, column>>,
                                    shot.result, pub.calls, pub.thrown)
                /\ UNCHANGED observers

\* model.shootAt(boardNumber, row, column); `failing` are the callbacks that
\* throw during this dispatch
GameShootAt(boardNumber, row, column, failing) ==
  IF LookupBoard(boards, boardNumber) = <<>>
    THEN /\ lastCall' = Call("shootAt", <<boardNumber, row, column>>,
                             Undefined, <<>>, ErrBoardNumberInvalid)
         /\ UNCHANGED <<boards, observers, view, published>>
    ELSE LET board == LookupBoard(boards, boardNumber)[1]
             shot == BoardShootAt(boards[board], row, column) IN
         IF shot.error # NoError
           THEN /\ boards' = [boards EXCEPT ![board] = shot.board]
                /\ lastCall' = Call("shootAt", <<boardNumber, row, column>>,
                                    Undefined, <<>>, shot.error)
                /\ UNCHANGED <<observers, view, published>>
           ELSE IF shot.result # Undefined
             THEN LET data == [boardNumber |-> boardNumber, row |-> row,
                               column |-> column, result |-> shot.result]
                      pub == PublishChange(observers, view,
                                           "shotFired", data, failing) IN
                  /\ boards' = [boards EXCEPT ![board] = shot.board]
                  /\ UsedCount(boards', 0) <= MaxUsed
                  /\ view' = pub.view
                  /\ published' = published (+) SetToBag({data})
                  /\ lastCall' = Call("shootAt", <<boardNumber, row, column>>,
                                      shot.result, pub.calls, pub.thrown)
                  /\ UNCHANGED observers
             ELSE /\ boards' = [boards EXCEPT ![board] = shot.board]
                  /\ lastCall' = Call("shootAt", <<boardNumber, row, column>>,
                                      Undefined, <<>>, NoError)
                  /\ UNCHANGED <<observers, view, published>>

\* addObserver keeping the callbacks in a list (push) instead of a Set
AddObserverPush(o) ==
  /\ observers' = Append(observers, o)
  /\ lastCall' = Call("addObserver", <<o>>, Undefined, <<>>, NoError)
  /\ UNCHANGED <<boards, view, published>>

\* model.addObserver(observerFunction): Set.add
AddObserver(o) ==
  /\ observers' = IF \E i \in 1..Len(observers) : observers[i] = o
                    THEN observers
                    ELSE Append(observers, o)
  /\ lastCall' = Call("addObserver", <<o>>, Undefined, <<>>, NoError)
  /\ UNCHANGED <<boards, view, published>>

---------------------------------------------------------------------------
\* The application: the two boards, the model, the view observing the
\* model and run, as the script's top level leaves them

Init ==
  /\ boards = [b \in 0..(BoardCount - 1) |-> NewBoardModel(Size)]
  /\ observers = <<ViewObserver>>
  /\ view = GameComponentRun(NewGameComponent(ViewBoardCount, ViewBoardSize))
  /\ lastCall = Call("new", <<>>, Undefined, <<>>, NoError)
  /\ published = EmptyBag

Next ==
  \/ \E s \in Shots, failing \in SUBSET Registered :
       GameShootAt(s[1], s[2][1], s[2][2], failing)
  \/ \E o \in ObserverIds : AddObserver(o)

Spec == Init /\ [][Next]_vars

---------------------------------------------------------------------------
\* The view on its own: constructed, run, and its cells' setState called
\* directly

\* The display states passed to setState: the three states and two values
\* that are none of them
DirectStates == States \cup {"sunk", Undefined}

\* The cell views (board view, index) setState is called on
DirectCells == {<<0, 2>>, <<0, 10>>, <<1, 0>>, <<1, 99>>}

\* view.run(), which returns getElement()
Run ==
  /\ view.componentState = <<>>
  /\ view' = GameComponentRun(view)
  /\ lastCall' = Returned("run", <<>>,
                          GetElement(view'.componentState).ret, NoError)
  /\ UNCHANGED <<boards, observers, published>>

\* cell.setState(state) on cell `index` of board view b
CellSetState(b, index, state) ==
  LET done == SetState(CellAt(view, b, index), state) IN
  /\ view' = WithCell(view, b, index, done.cell)
  /\ lastCall' = Call("setState", <<b, index, state>>, Undefined, <<>>,
                      done.error)
  /\ UNCHANGED <<boards, observers, published>>

\* The state after new GameComponent(...), before view.run()
InitView ==
  /\ boards = [b \in 0..(BoardCount - 1) |-> NewBoardModel(Size)]
  /\ observers = <<>>
  /\ view = NewGameComponent(ViewBoardCount, ViewBoardSize)
  /\ lastCall = Call("new", <<>>, Undefined, <<>>, NoError)
  /\ published = EmptyBag

NextView ==
  \/ Run
  \/ \E c \in DirectCells, state \in DirectStates :
       CellSetState(c[1], c[2], state)

SpecView == InitView /\ [][NextView]_vars

---------------------------------------------------------------------------
\* The life cycle of the view components: constructed, getElement() called
\* on them, run, and their cells' setState called once they run

\* The components getElement() is called on: the top-level view, both
\* board views and four cell views, as <<kind, board view, index>>
Components ==
  {<<"game", 0, 0>>, <<"board", 0, 0>>, <<"board", 1, 0>>,
   <<"cell", 0, 0>>, <<"cell", 0, 10>>, <<"cell", 1, 0>>, <<"cell", 1, 99>>}

\* this._componentState of the component c of the view v
ComponentState(v, c) ==
  CASE c[1] = "game" -> v.componentState
    [] c[1] = "board" -> v.boards[c[2]].componentState
    [] c[1] = "cell" -> CellAt(v, c[2], c[3]).componentState

\* component.getElement()
ComponentGetElement(c) ==
  LET got == GetElement(ComponentState(view, c)) IN
  /\ lastCall' = Returned("getElement", c, got.ret, got.error)
  /\ UNCHANGED <<boards, observers, view, published>>

NextLifecycle ==
  \/ Run
  \/ \E c \in Components : ComponentGetElement(c)
  \/ \E c \in DirectCells, state \in States :
       /\ view.componentState # <<>>
       /\ CellSetState(c[1], c[2], state)

SpecLifecycle == InitView /\ [][NextLifecycle]_vars

---------------------------------------------------------------------------
\* The application played by clicks: every shot is a click on a cell view

\* The cell views (board view, index) that are clicked
ClickCells ==
  {<<0, 2>>, <<0, 3>>, <<0, 4>>, <<0, 5>>, <<0, 10>>, <<0, 99>>,
   <<1, 2>>, <<1, 10>>, <<1, 99>>}

\* controller.cellClickHandler(location)
CellClickHandler(location) ==
  GameShootAt(location.boardNumber, location.row, location.column, {})

\* A click on the element of cell `index` of board view b: _onClick hands
\* the cell's location to the click handler
Click(b, index) ==
  /\ CellAt(view, b, index).componentState # <<>>
  /\ CellClickHandler(CellLocation(b, view.boards[b], index))

NextClicks == \E c \in ClickCells : Click(c[1], c[2])

SpecClicks == Init /\ [][NextClicks]_vars

---------------------------------------------------------------------------
\* Properties

\* The last operation was model.shootAt(b, row, column)
IsShot(call) == call.op = "shootAt"

\* The cell (row, column) of an existing board b exists
ExistsCell(bs, b, row, column) ==
  /\ b \in DOMAIN bs
  /\ row \in 0..bs[b].rowNumber
  /\ column \in 0..bs[b].columnNumber

\* The observers a dispatch called, in order
Called(call) == [i \in 1..Len(call.calls) |-> call.calls[i].observer]

\* C1: shootAt at a cell that is already used is a no-op: the board returns
\* nothing, no observer is called, nothing is thrown, and no cell's used
\* flag, no ship's hit count and nothing else changes.
C1_ReshootIsNoOp ==
  [][ LET a == lastCall'.args IN
      ( /\ IsShot(lastCall')
        /\ ExistsCell(boards, a[1], a[2], a[3])
        /\ <<a[2], a[3]>> \in boards[a[1]].used )
      => /\ lastCall'.boardResult = Undefined
         /\ lastCall'.calls = <<>>
         /\ lastCall'.thrown = NoError
         /\ boards' = boards
         /\ view' = view
         /\ published' = published
         /\ observers' = observers ]_vars

\* C1 witness: a shot at a used cell of board 0 has returned nothing.
C1_Witness ==
  /\ IsShot(lastCall)
  /\ lastCall.args = <<0, 0, 2>>
  /\ <<0, 2>> \in boards[0].used
  /\ lastCall.boardResult = Undefined
  /\ lastCall.thrown = NoError

\* C2: a cell's used flag never goes back to false, and a shot at an
\* existing unused cell turns that cell's flag, and no other, to true.
C2_UsedOnceNeverReverts ==
  [][ /\ \A b \in DOMAIN boards : boards[b].used \subseteq boards'[b].used
      /\ LET a == lastCall'.args IN
         ( /\ IsShot(lastCall')
           /\ ExistsCell(boards, a[1], a[2], a[3])
           /\ <<a[2], a[3]>> \notin boards[a[1]].used )
         => /\ boards'[a[1]].used = boards[a[1]].used \cup {<<a[2], a[3]>>}
            /\ \A b \in DOMAIN boards \ {a[1]} :
                 boards'[b].used = boards[b].used ]_vars

\* C2 witness: a first shot has used a cell while another was used before.
C2_Witness ==
  /\ IsShot(lastCall)
  /\ lastCall.args = <<0, 0, 5>>
  /\ lastCall.boardResult = "miss"
  /\ boards[0].used = {<<0, 2>>, <<0, 5>>}

\* C3: shootAt on a valid board publishes shotFired to every observer
\* exactly when the cell was not yet used; the payload is the call's
\* boardNumber, row and column, with result "hit" iff the cell carries a
\* ship and "miss" otherwise; no (board, row, column) is ever published
\* twice.
C3_PublishesOncePerCell ==
  [][ LET a == lastCall'.args
          fresh == /\ ExistsCell(boards, a[1], a[2], a[3])
                   /\ <<a[2], a[3]>> \notin boards[a[1]].used
          payload == [boardNumber |-> a[1], row |-> a[2], column |-> a[3],
                      result |-> IF <<a[2], a[3]>> \in DOMAIN boards[a[1]].shipAt
                                   THEN "hit" ELSE "miss"]
      IN
      (IsShot(lastCall') /\ a[1] \in DOMAIN boards)
      => /\ IF fresh
              THEN /\ published' = published (+) SetToBag({payload})
                   /\ Called(lastCall') = observers
                   /\ \A i \in 1..Len(lastCall'.calls) :
                        /\ lastCall'.calls[i].type = "shotFired"
                        /\ lastCall'.calls[i].data = payload
                   /\ lastCall'.boardResult = payload.result
              ELSE /\ published' = published
                   /\ lastCall'.calls = <<>>
                   /\ lastCall'.boardResult = Undefined
         /\ \A d \in BagToSet(published') :
              /\ CopiesIn(d, published') = 1
              /\ \A e \in BagToSet(published') :
                   ( /\ e.boardNumber = d.boardNumber
                     /\ e.row = d.row
                     /\ e.column = d.column ) => e = d ]_vars

\* C3 witness: a hit and a miss have been published, and a later shot at
\* one of the two cells has published nothing.
C3_Witness ==
  /\ IsShot(lastCall)
  /\ lastCall.args = <<0, 0, 2>>
  /\ lastCall.calls = <<>>
  /\ BagToSet(published) =
       { [boardNumber |-> 0, row |-> 0, column |-> 2, result |-> "hit"],
         [boardNumber |-> 0, row |-> 0, column |-> 5, result |-> "miss"] }

\* C4: a ship's isSunk() is false while its hits are below its occupied
\* cell count and true from then on: a ship that is sunk stays sunk in
\* every later state.
C4_SunkMonotonic ==
  [][ \A b \in DOMAIN boards : \A s \in DOMAIN boards[b].ships :
        LET ship == boards[b].ships[s]
            after == boards'[b].ships[s] IN
        /\ IsSunk(ship) => IsSunk(after)
        /\ after.shotTimes < after.size => ~IsSunk(after)
        /\ after.shotTimes >= after.size => IsSunk(after)
        /\ after.size = ship.size
        /\ after.shotTimes >= ship.shotTimes ]_vars

\* C4 witness: the ship of board 0 has taken its third hit, and a later
\* shot at the other board leaves it sunk.
C4_Witness ==
  /\ IsShot(lastCall)
  /\ lastCall.args = <<1, 1, 0>>
  /\ lastCall.boardResult = "miss"
  /\ boards[0].ships[1].shotTimes = 3
  /\ IsSunk(boards[0].ships[1])

\* C5: on a fresh 10x10 board, shootAt(0,2) and then shootAt(0,3) return
\* "hit" and leave the ship afloat; then shootAt(0,4) returns "hit" and
\* sinks it; then shootAt(0,5) returns "miss".
C5_ThreeCellShipScenario ==
  [][ \A b \in DOMAIN boards :
        LET shotAt(c) == IsShot(lastCall') /\ lastCall'.args = <<b, 0, c>>
            result == lastCall'.boardResult
            sunk == IsSunk(boards'[b].ships[1]) IN
        /\ (shotAt(2) /\ boards[b] = NewBoardModel(10))
             => (result = "hit" /\ ~sunk)
        /\ (shotAt(3) /\ boards[b].used = {<<0, 2>>})
             => (result = "hit" /\ ~sunk)
        /\ (shotAt(4) /\ boards[b].used = {<<0, 2>>, <<0, 3>>})
             => (result = "hit" /\ sunk)
        /\ (shotAt(5) /\ boards[b].used = {<<0, 2>>, <<0, 3>>, <<0, 4>>})
             => (result = "miss" /\ sunk) ]_vars

\* C5 witness: the four shots of the scenario have been made on board 0.
C5_Witness ==
  /\ IsShot(lastCall)
  /\ lastCall.args = <<0, 0, 5>>
  /\ lastCall.boardResult = "miss"
  /\ boards[0].used = {<<0, 2>>, <<0, 3>>, <<0, 4>>, <<0, 5>>}
  /\ boards[0].rowNumber = 10
  /\ IsSunk(boards[0].ships[1])

\* C6: shootAt with a board number outside 0..N-1 throws the invalid board
\* number error, calls no observer and changes no board and no view cell.
C6_InvalidBoardNumber ==
  [][ ( /\ IsShot(lastCall')
        /\ lastCall'.args[1] \notin 0..(Cardinality(DOMAIN boards) - 1) )
      => /\ lastCall'.thrown = ErrBoardNumberInvalid
         /\ lastCall'.calls = <<>>
         /\ boards' = boards
         /\ view' = view
         /\ published' = published ]_vars

\* C6 witness: a shot at board number 2 has been refused after a cell of
\* board 0 was used.
C6_Witness ==
  /\ IsShot(lastCall)
  /\ lastCall.args[1] = 2
  /\ lastCall.thrown = ErrBoardNumberInvalid
  /\ boards[0].used # {}

\* The indices of the calls of a dispatch that threw
Failed(call) == {i \in 1..Len(call.calls) : call.calls[i].error # NoError}

\* C7: when an event is published, every registered observer is called
\* exactly once, in order, whichever of them throw.
C7_EveryObserverCalled ==
  (IsShot(lastCall) /\ lastCall.boardResult # Undefined)
    => /\ Called(lastCall) = observers
       /\ \A o \in ObserverIds :
            Cardinality({i \in 1..Len(observers) : observers[i] = o}) =
            Cardinality({i \in 1..Len(lastCall.calls) :
                           lastCall.calls[i].observer = o})

\* C7 witness: the first two of three observers threw and the third was
\* still called.
C7_Witness ==
  /\ IsShot(lastCall)
  /\ Len(lastCall.calls) = 3
  /\ Failed(lastCall) = {1, 2}

\* C8: the error shootAt re-throws after a dispatch is the one of the last
\* observer that threw, all observers having been called; when none threw,
\* shootAt throws nothing.
C8_LastErrorRethrown ==
  (IsShot(lastCall) /\ lastCall.boardResult # Undefined)
    => /\ Len(lastCall.calls) = Len(observers)
       /\ lastCall.thrown =
            IF Failed(lastCall) = {} THEN NoError
            ELSE lastCall.calls[CHOOSE i \in Failed(lastCall) :
                                  \A j \in Failed(lastCall) : j <= i].error

\* C8 witness: two observers threw different errors and the second one's
\* was re-thrown.
C8_Witness ==
  /\ IsShot(lastCall)
  /\ \E i, j \in Failed(lastCall) :
       /\ i < j
       /\ lastCall.calls[i].error # lastCall.calls[j].error
       /\ lastCall.thrown = lastCall.calls[j].error
       /\ \A k \in Failed(lastCall) : k <= j

\* C9: setState with a value that is none of unknown, hit, miss throws the
\* invalid state error and leaves the cell's display state and its
\* rendered marker as they were.
C9_InvalidStateRejected ==
  [][ ( /\ lastCall'.op = "setState"
        /\ lastCall'.args[3] \notin {"unknown", "hit", "miss"} )
      => /\ lastCall'.thrown = ErrInvalidState
         /\ CellAt(view', lastCall'.args[1], lastCall'.args[2])
              = CellAt(view, lastCall'.args[1], lastCall'.args[2])
         /\ view' = view ]_vars

\* C9 witness: a cell showing a hit has refused an invalid state.
C9_Witness ==
  /\ lastCall.op = "setState"
  /\ lastCall.args[3] = "sunk"
  /\ lastCall.thrown = ErrInvalidState
  /\ CellAt(view, lastCall.args[1], lastCall.args[2]) =
       [state |-> "hit",
        componentState |-> << [textContent |-> "X", className |-> "cell_hit"] >>]

\* Every cell view of the view v shows `unknown`
AllUnknown(v) ==
  \A b \in DOMAIN v.boards : \A i \in 0..(v.boards[b].length - 1) :
    CellAt(v, b, i).state = "unknown"

\* C10: every cell view starts unknown; over shootAt calls a cell view
\* only goes from unknown to hit or to miss, and a cell view that is hit or
\* miss has setState called on it no more.
C10_ViewCellSetOnce ==
  /\ AllUnknown(view)
  /\ [][ /\ \A i \in 1..Len(lastCall'.calls) :
              \A c \in lastCall'.calls[i].set :
                /\ CellAt(view, c[1], c[2]).state = "unknown"
                /\ CellAt(view', c[1], c[2]).state \in {"hit", "miss"}
         /\ \A b \in DOMAIN view.boards :
              \A i \in DOMAIN view.boards[b].cells
                         \cup DOMAIN view'.boards[b].cells :
                CellAt(view, b, i).state # CellAt(view', b, i).state
                  => /\ CellAt(view, b, i).state = "unknown"
                     /\ CellAt(view', b, i).state \in {"hit", "miss"} ]_vars

\* The event's row and column lie within the board view b of the view v
InViewBounds(v, b, data) ==
  /\ data.row \in 0..(v.boards[b].rowNumber - 1)
  /\ data.column \in 0..(v.boards[b].columnNumber - 1)

\* C11: modelObserver, given shotFired for an existing board view with a
\* row or a column outside 0..size-1, fails with "Invalid cell address"
\* and changes no view cell: it calls setState on no cell view and leaves
\* the view as it was.
C11_OutOfBoundsRejected ==
  [][ \A i \in 1..Len(lastCall'.calls) :
        LET call == lastCall'.calls[i] IN
        ( /\ call.observer = ViewObserver
          /\ call.type = "shotFired"
          /\ call.data.boardNumber \in DOMAIN view.boards
          /\ ~InViewBounds(view, call.data.boardNumber, call.data) )
        => /\ call.error = ErrInvalidCellAddress
           /\ call.set = {}
           /\ view' = view ]_vars

\* How many times the callback o is in the sequence of callbacks seq
Times(seq, o) == Cardinality({i \in 1..Len(seq) : seq[i] = o})

\* C12: addObserver is idempotent per callback: registering a callback
\* that is registered leaves the observers as they were, no callback is
\* ever registered twice, and a dispatch calls every registered callback
\* exactly once.
C12_AddObserverIdempotent ==
  [][ /\ lastCall'.op = "addObserver"
         => LET o == lastCall'.args[1] IN
            /\ Times(observers, o) = 1 => observers' = observers
            /\ Times(observers, o) = 0 => observers' = Append(observers, o)
      /\ \A o \in ObserverIds : Times(observers', o) <= 1
      /\ (IsShot(lastCall') /\ lastCall'.calls # <<>>)
         => \A o \in ObserverIds :
              Times(Called(lastCall'), o) = Times(observers', o) ]_vars

\* C12 witness: "obsA", registered before "obsB", has been registered
\* again after events were published, and the observers are as before.
C12_Witness ==
  /\ lastCall.op = "addObserver"
  /\ lastCall.args = <<"obsA">>
  /\ observers = <<ViewObserver, "obsA", "obsB">>
  /\ BagCardinality(published) = 2

\* Every cell view of the view v has its element, showing `unknown`
AllShowUnknown(v) ==
  \A b \in DOMAIN v.boards : \A i \in 0..(v.boards[b].length - 1) :
    CellAt(v, b, i) =
      [state |-> "unknown",
       componentState |-> << [textContent |-> "", className |-> "cell_unknown"] >>]

\* The element of every board view of v holds its cells' elements in
\* row-major order: the child `column` of the row `row` is the cell view
\* constructed for that location
RowMajor(v) ==
  \A b \in DOMAIN v.boards :
    LET board == v.boards[b]
        rows == board.componentState[1].rows IN
    /\ Len(rows) = board.rowNumber
    /\ \A r \in 1..Len(rows) :
         /\ Len(rows[r]) = board.columnNumber
         /\ \A c \in 1..Len(rows[r]) :
              CellLocation(b, board, rows[r][c]) =
                [boardNumber |-> b, row |-> r - 1, column |-> c - 1]

\* C13: getElement() of a view component before run() throws; run()
\* creates the elements, the children's run and attached in row-major
\* order, and then initializes, so that it returns the created element
\* and every cell shows its initial state unknown; getElement() after
\* run() returns the component's element.
C13_Lifecycle ==
  [][ /\ lastCall'.op = "getElement"
         => IF view.componentState = <<>>
              THEN /\ lastCall'.thrown = ErrTypeError
                   /\ lastCall'.ret = <<>>
              ELSE /\ lastCall'.thrown = NoError
                   /\ Len(lastCall'.ret) = 1
                   /\ lastCall'.ret = ComponentState(view, lastCall'.args)
      /\ lastCall'.op = "run"
         => /\ lastCall'.thrown = NoError
            /\ \A c \in Components : ComponentState(view, c) = <<>>
            /\ \A c \in Components : Len(ComponentState(view', c)) = 1
            /\ lastCall'.ret = view'.componentState
            /\ view'.componentState[1].boardContainer = <<0, 1>>
            /\ RowMajor(view')
            /\ AllShowUnknown(view') ]_vars

\* C13 witness: the view has run, a cell was set to hit, and getElement()
\* of that cell has returned its element while another shows unknown.
C13_Witness ==
  /\ lastCall.op = "getElement"
  /\ lastCall.args = <<"cell", 0, 10>>
  /\ lastCall.thrown = NoError
  /\ lastCall.ret = << [textContent |-> "X", className |-> "cell_hit"] >>
  /\ CellAt(view, 1, 99).componentState =
       << [textContent |-> "", className |-> "cell_unknown"] >>

\* C14: every ship's hit count (_shotTimes) is at most its number of
\* occupied cells (_size), in every reachable state.
C14_HitsAtMostSize ==
  \A b \in DOMAIN boards : \A s \in 1..Len(boards[b].ships) :
    /\ boards[b].ships[s].shotTimes >= 0
    /\ boards[b].ships[s].shotTimes <= boards[b].ships[s].size

\* C14 witness: a ship with every cell hit has been shot at again, and
\* its hit count is its size.
C14_Witness ==
  /\ IsShot(lastCall)
  /\ lastCall.args = <<0, 0, 3>>
  /\ lastCall.boardResult = Undefined
  /\ lastCall.thrown = NoError
  /\ boards[0].ships[1].size = 3
  /\ boards[0].ships[1].shotTimes = 3

\* C15: shootAt on an existing cell never throws CellModel.shoot()'s
\* "already used" error: the board's guard returns first, so a shot gets
\* its result from cell.shoot() only when the cell was not used.
C15_AlreadyUsedUnreachable ==
  [][ LET a == lastCall'.args IN
      (IsShot(lastCall') /\ ExistsCell(boards, a[1], a[2], a[3]))
      => /\ lastCall'.thrown # ErrAlreadyUsed
         /\ CellShoot(boards[a[1]], <<a[2], a[3]>>).error = ErrAlreadyUsed
            => /\ lastCall'.boardResult = Undefined
               /\ boards' = boards
         /\ lastCall'.boardResult # Undefined
            => /\ <<a[2], a[3]>> \notin boards[a[1]].used
               /\ boards'[a[1]] = CellShoot(boards[a[1]], <<a[2], a[3]>>).board
      ]_vars

\* C15 witness: a used cell of board 1, carrying a ship, has been shot at
\* again and nothing was thrown.
C15_Witness ==
  /\ IsShot(lastCall)
  /\ lastCall.args = <<1, 0, 2>>
  /\ <<0, 2>> \in boards[1].used
  /\ boards[1].ships[1].shotTimes = 1
  /\ lastCall.boardResult = Undefined
  /\ lastCall.thrown = NoError

\* C16: an observer that throws does not undo the shot: when shootAt
\* re-throws an observer's error, the cell has become used and its ship's
\* hit count has gone up by one; and a shootAt at a used cell, whatever its
\* first shot threw, calls no observer and publishes nothing.
C16_NoRollbackOnObserverError ==
  [][ LET a == lastCall'.args
          key == <<a[2], a[3]>> IN
      /\ ( /\ IsShot(lastCall')
           /\ Failed(lastCall') # {}
           /\ lastCall'.thrown # NoError )
         => /\ key \notin boards[a[1]].used
            /\ key \in boards'[a[1]].used
            /\ \A s \in 1..Len(boards[a[1]].ships) :
                 boards'[a[1]].ships[s].shotTimes =
                   boards[a[1]].ships[s].shotTimes
                     + (IF key \in boards[a[1]].ships[s].cells THEN 1 ELSE 0)
            /\ BagCardinality(published') = BagCardinality(published) + 1
      /\ ( /\ IsShot(lastCall')
           /\ ExistsCell(boards, a[1], a[2], a[3])
           /\ key \in boards[a[1]].used )
         => /\ lastCall'.calls = <<>>
            /\ published' = published
            /\ boards' = boards ]_vars

\* C16 witness: the shot at a ship's second cell has re-thrown the error
\* of an observer, and the ship's hit count is two.
C16_Witness ==
  /\ IsShot(lastCall)
  /\ lastCall.args = <<0, 0, 3>>
  /\ lastCall.boardResult = "hit"
  /\ lastCall.thrown = ObserverError("obsA")
  /\ boards[0].used = {<<0, 2>>, <<0, 3>>}
  /\ boards[0].ships[1].shotTimes = 2

\* What the view v shows at every (board, row, column) is what the model
\* bs holds there: unknown iff the cell is unused, hit iff it is used and
\* carries a ship, miss iff it is used and carries none
ViewAgrees(v, bs) ==
  \A b \in DOMAIN v.boards : \A i \in 0..(v.boards[b].length - 1) :
    LET location == CellLocation(b, v.boards[b], i)
        key == <<location.row, location.column>>
        cell == CellAt(v, b, i)
        shown == IF ~IsUsed(bs[b], key) THEN "unknown"
                 ELSE IF Cell(bs[b], key).ship # NoShip THEN "hit"
                 ELSE "miss" IN
    /\ key \in CellKeys(bs[b])
    /\ cell.state = shown
    /\ cell.componentState =
         << [textContent |-> Content(shown), className |-> ClassName(shown)] >>

\* C17: with the shipped wiring and shots made only by clicks on cell
\* views, the view agrees with the model at every (board, row, column)
\* after every click, and a click changes at most the clicked cell view.
C17_ViewRefinesModel ==
  /\ ViewAgrees(view, boards)
  /\ [][ /\ ViewAgrees(view', boards')
         /\ IsShot(lastCall')
            => LET a == lastCall'.args IN
               /\ lastCall'.thrown = NoError
               /\ \A b \in DOMAIN view.boards :
                    \A i \in 0..(view.boards[b].length - 1) :
                      CellLocation(b, view.boards[b], i) #
                          [boardNumber |-> a[1], row |-> a[2], column |-> a[3]]
                        => CellAt(view', b, i) = CellAt(view, b, i) ]_vars

\* C17 witness: clicks have left a hit and a miss on board 0, and the last
\* click was a hit on the cell of row 0, column 2 of board 1.
C17_Witness ==
  /\ IsShot(lastCall)
  /\ lastCall.args = <<1, 0, 2>>
  /\ lastCall.boardResult = "hit"
  /\ CellAt(view, 1, 2).state = "hit"
  /\ CellAt(view, 0, 2).state = "hit"
  /\ CellAt(view, 0, 10).state = "miss"
  /\ boards[0].used = {<<0, 2>>, <<1, 0>>}

\* C18: the boards are isolated: shootAt(b, row, column) changes at most
\* the used flag of the cell (row, column) of board b and the hit count of
\* the ship on that cell; every other cell and ship of board b, and every
\* cell and ship of every other board, stay as they were.
C18_BoardsIsolated ==
  [][ IsShot(lastCall')
      => LET a == lastCall'.args
             key == <<a[2], a[3]>> IN
         /\ DOMAIN boards' = DOMAIN boards
         /\ \A b \in DOMAIN boards :
              IF b # a[1]
                THEN boards'[b] = boards[b]
                ELSE /\ boards[b].used \subseteq boards'[b].used
                     /\ boards'[b].used \subseteq boards[b].used \cup {key}
                     /\ boards'[b].shipAt = boards[b].shipAt
                     /\ boards'[b].rowNumber = boards[b].rowNumber
                     /\ boards'[b].columnNumber = boards[b].columnNumber
                     /\ Len(boards'[b].ships) = Len(boards[b].ships)
                     /\ \A s \in 1..Len(boards[b].ships) :
                          IF /\ key \in boards[b].ships[s].cells
                             /\ key \notin boards[b].used
                            THEN boards'[b].ships[s] =
                                   ShipShoot(boards[b].ships[s])
                            ELSE boards'[b].ships[s] = boards[b].ships[s]
      ]_vars

\* C18 witness: after two hits on board 0, the first shot on board 1 has
\* hit its ship; board 0 holds its two hits and board 1 its one.
C18_Witness ==
  /\ IsShot(lastCall)
  /\ lastCall.args = <<1, 0, 2>>
  /\ lastCall.boardResult = "hit"
  /\ boards[0].used = {<<0, 2>>, <<0, 3>>}
  /\ boards[0].ships[1].shotTimes = 2
  /\ boards[1].used = {<<0, 2>>}
  /\ boards[1].ships[1].shotTimes = 1

\* C19: for every ship, the cells registered with it are the cells that
\* carry it, its _size is their number, its hit count is the number of
\* them that are used, and isSunk() holds iff every one of them is used.
C19_HitCountIsUsedCells ==
  \A b \in DOMAIN boards : \A s \in 1..Len(boards[b].ships) :
    LET ship == boards[b].ships[s]
        carrying == {k \in CellKeys(boards[b]) : Cell(boards[b], k).ship = s} IN
    /\ ship.cells = carrying
    /\ ship.size = Cardinality(ship.cells)
    /\ ship.shotTimes =
         Cardinality({k \in ship.cells : IsUsed(boards[b], k)})
    /\ IsSunk(ship) <=> \A k \in ship.cells : IsUsed(boards[b], k)

\* C19 witness: two of a ship's three cells and a cell without a ship are
\* used on board 0: the ship counts two hits and is afloat.
C19_Witness ==
  /\ boards[0].used = {<<0, 2>>, <<0, 4>>, <<0, 5>>}
  /\ boards[0].ships[1].cells = {<<0, 2>>, <<0, 3>>, <<0, 4>>}
  /\ boards[0].ships[1].shotTimes = 2
  /\ ~IsSunk(boards[0].ships[1])
  /\ IsShot(lastCall)
  /\ lastCall.boardResult = "hit"

=============================================================================
